---- MODULE Spec2Model ----
(***************************************************************************)
(* Model of src/server.js: the property CRUD service in volatile (memory)  *)
(* mode.  The state is the in-process list `memory`, the wall clock read   *)
(* by Date.now(), and the last request and its response.  Each Express     *)
(* handler is one action (Node runs a handler without awaits to            *)
(* completion).                                                            *)
(*                                                                         *)
(* JavaScript values are tagged records [t, n, s]; strings are sequences   *)
(* of one-character strings so that String(), Number(), parseInt() and     *)
(* localeCompare() are computed, not assumed.                              *)
(***************************************************************************)
EXTENDS Integers, Sequences, FiniteSets, TLC

(***************************************************************************)
(* Bounds of the model.                                                    *)
(***************************************************************************)
MaxMem == 2       \* longest memory list explored by the general model
MaxClock == 1     \* last clock reading (Date.now() in model milliseconds)

(***************************************************************************)
(* JavaScript values.                                                      *)
(***************************************************************************)
Undef == [t |-> "undefined", n |-> 0, s |-> <<>>]
Null == [t |-> "null", n |-> 0, s |-> <<>>]
NaN == [t |-> "nan", n |-> 0, s |-> <<>>]
Num(k) == [t |-> "number", n |-> k, s |-> <<>>]
Str(cs) == [t |-> "string", n |-> 0, s |-> cs]

\* Body applied to the value of e, which is computed once
Let(e, Body(_)) == CHOOSE r \in {Body(v) : v \in {e}} : TRUE

Digits == <<"0", "1", "2", "3", "4", "5", "6", "7", "8", "9">>
LowerCase == <<"a", "b", "c", "d", "e", "f", "g", "h", "i", "j", "k", "l", "m",
               "n", "o", "p", "q", "r", "s", "t", "u", "v", "w", "x", "y", "z">>
UpperCase == <<"A", "B", "C", "D", "E", "F", "G", "H", "I", "J", "K", "L", "M",
               "N", "O", "P", "Q", "R", "S", "T", "U", "V", "W", "X", "Y", "Z">>

IndexOf(seq, c) == IF \E i \in 1..Len(seq) : seq[i] = c
                   THEN CHOOSE i \in 1..Len(seq) : seq[i] = c
                   ELSE 0
IsDigit(c) == IndexOf(Digits, c) > 0
DigitVal(c) == IndexOf(Digits, c) - 1
IsSpace(c) == c = " "

RECURSIVE NatToChars(_)
NatToChars(k) == IF k < 10 THEN <<Digits[k + 1]>>
                 ELSE NatToChars(k \div 10) \o <<Digits[(k % 10) + 1]>>

\* String(v) / template conversion of a value to its string.
ToStringChars(a) ==
  Let(a, LAMBDA v :
    CASE v.t = "string" -> v.s
      [] v.t = "undefined" -> <<"u", "n", "d", "e", "f", "i", "n", "e", "d">>
      [] v.t = "null" -> <<"n", "u", "l", "l">>
      [] v.t = "nan" -> <<"N", "a", "N">>
      [] v.t = "number" -> IF v.n < 0 THEN <<"-">> \o NatToChars(-v.n) ELSE NatToChars(v.n))
JsString(v) == Str(ToStringChars(v))

\* white space removed from the front, from the end, from both
DropSpaces(cs) ==
  LET k == CHOOSE i \in 1..(Len(cs) + 1) :
             /\ \A j \in 1..(i - 1) : IsSpace(cs[j])
             /\ (i <= Len(cs) => ~IsSpace(cs[i]))
  IN SubSeq(cs, k, Len(cs))
DropTrailingSpaces(cs) ==
  LET k == CHOOSE i \in 0..Len(cs) :
             /\ \A j \in (i + 1)..Len(cs) : IsSpace(cs[j])
             /\ (i >= 1 => ~IsSpace(cs[i]))
  IN SubSeq(cs, 1, k)
TrimChars(cs) == DropTrailingSpaces(DropSpaces(cs))

\* the longest prefix of digits
DigitPrefix(cs) ==
  LET k == CHOOSE i \in 0..Len(cs) :
             /\ \A j \in 1..i : IsDigit(cs[j])
             /\ (i < Len(cs) => ~IsDigit(cs[i + 1]))
  IN SubSeq(cs, 1, k)
RECURSIVE DigitsValueUpTo(_, _)
DigitsValueUpTo(ds, k) == IF k = 0 THEN 0 ELSE DigitsValueUpTo(ds, k - 1) * 10 + DigitVal(ds[k])
DigitsValue(ds) == DigitsValueUpTo(ds, Len(ds))

HasSign(cs) == cs # <<>> /\ Head(cs) \in {"+", "-"}
SignOf(cs) == IF cs # <<>> /\ Head(cs) = "-" THEN -1 ELSE 1
Unsigned(cs) == IF HasSign(cs) THEN Tail(cs) ELSE cs

\* Number("...") on the decimal-integer literals of the model's alphabet:
\* surrounding white space is ignored, the empty string is 0, an optional
\* sign and digits only give the integer, anything else is NaN.
StringToNumber(cs) ==
  Let(TrimChars(cs), LAMBDA t :
    IF t = <<>> THEN Num(0)
    ELSE Let(Unsigned(t), LAMBDA u :
           IF u # <<>> /\ DigitPrefix(u) = u THEN Num(SignOf(t) * DigitsValue(u))
           ELSE NaN))

\* Number(v)
ToNumber(a) ==
  Let(a, LAMBDA v :
    CASE v.t = "number" -> v
      [] v.t = "nan" -> v
      [] v.t = "undefined" -> NaN
      [] v.t = "null" -> Num(0)
      [] v.t = "string" -> StringToNumber(v.s))

\* parseInt(cs, 10): leading white space skipped, optional sign, then the
\* longest prefix of digits; no digit at all gives NaN.
ParseInt(cs) ==
  Let(DropSpaces(cs), LAMBDA t :
    Let(DigitPrefix(Unsigned(t)), LAMBDA d :
      IF d = <<>> THEN NaN ELSE Num(SignOf(t) * DigitsValue(d))))

\* ToBoolean(v)
Truthy(v) ==
  CASE v.t = "number" -> v.n # 0
    [] v.t = "string" -> v.s # <<>>
    [] OTHER -> FALSE
\* a || b
JsOr(a, b) == Let(a, LAMBDA x : IF Truthy(x) THEN x ELSE b)
\* a ?? b
Nullish(a, b) == Let(a, LAMBDA x : IF x.t \in {"undefined", "null"} THEN b ELSE x)
MathMax(a, b) ==
  Let(a, LAMBDA x : Let(b, LAMBDA y :
    IF x.t = "nan" \/ y.t = "nan" THEN NaN ELSE IF x.n >= y.n THEN x ELSE y))
MathMin(a, b) ==
  Let(a, LAMBDA x : Let(b, LAMBDA y :
    IF x.t = "nan" \/ y.t = "nan" THEN NaN ELSE IF x.n <= y.n THEN x ELSE y))
\* a - b
JsSub(a, b) ==
  Let(ToNumber(a), LAMBDA x : Let(ToNumber(b), LAMBDA y :
    IF x.t = "nan" \/ y.t = "nan" THEN NaN ELSE Num(x.n - y.n)))
JsNeg(a) == Let(a, LAMBDA x : IF x.t = "nan" THEN NaN ELSE Num(-x.n))
\* a >= b and a <= b where b is a number (the filter bounds): both sides are
\* converted with ToNumber and any NaN makes the comparison false.
JsGe(a, b) ==
  Let(ToNumber(a), LAMBDA x : Let(ToNumber(b), LAMBDA y :
    x.t = "number" /\ y.t = "number" /\ x.n >= y.n))
JsLe(a, b) ==
  Let(ToNumber(a), LAMBDA x : Let(ToNumber(b), LAMBDA y :
    x.t = "number" /\ y.t = "number" /\ x.n <= y.n))

(***************************************************************************)
(* String operations used by the query handler.                            *)
(***************************************************************************)
FoldCase(c) == IF IndexOf(UpperCase, c) > 0 THEN LowerCase[IndexOf(UpperCase, c)] ELSE c

\* new RegExp(pattern, 'i') for patterns over letters, digits, "." and "(":
\* a letter or digit matches itself ignoring case, "." matches any character,
\* and an unclosed "(" is a SyntaxError.
RegExpThrows(pattern) == \E k \in 1..Len(pattern) : pattern[k] = "("
MatchAt(pattern, text, i) ==
  /\ i + Len(pattern) - 1 <= Len(text)
  /\ \A k \in 1..Len(pattern) :
       pattern[k] = "." \/ FoldCase(pattern[k]) = FoldCase(text[i + k - 1])
\* rx.test(v): the argument is converted to a string first
RegExpTest(pattern, v) ==
  \E text \in {ToStringChars(v)} : \E i \in 1..(Len(text) + 1) : MatchAt(pattern, text, i)

\* String.prototype.localeCompare under the default (root) collation for
\* letters and digits: punctuation < digits < letters, letters compared
\* ignoring case first, and lower case before upper case to break a tie.
PrimaryWeight(c) ==
  IF IndexOf(LowerCase, c) > 0 THEN 100 + IndexOf(LowerCase, c)
  ELSE IF IndexOf(UpperCase, c) > 0 THEN 100 + IndexOf(UpperCase, c)
  ELSE IF IsDigit(c) THEN 50 + DigitVal(c)
  ELSE 1
TertiaryWeight(c) == IF IndexOf(UpperCase, c) > 0 THEN 1 ELSE 0
CompareBy(level, x, y) ==
  LET W(c) == IF level = 1 THEN PrimaryWeight(c) ELSE TertiaryWeight(c)
      n == IF Len(x) < Len(y) THEN Len(x) ELSE Len(y)
      differ == {i \in 1..n : W(x[i]) # W(y[i])}
  IN IF differ = {}
     THEN (IF Len(x) < Len(y) THEN -1 ELSE IF Len(x) > Len(y) THEN 1 ELSE 0)
     ELSE LET i == CHOOSE d \in differ : \A e \in differ : d <= e
          IN IF W(x[i]) < W(y[i]) THEN -1 ELSE 1
LocaleCompare(x, y) == Let(CompareBy(1, x, y), LAMBDA c : IF c # 0 THEN c ELSE CompareBy(3, x, y))

(***************************************************************************)
(* Records of the volatile store.                                          *)
(***************************************************************************)
\* new Date().toISOString(): the instant followed by "Z" (never a numeric string)
ToISOString(t) == Str(NatToChars(t) \o <<"Z">>)

\* obj[key]: a missing property reads as undefined
GetProp(obj, key) == IF key \in DOMAIN obj THEN obj[key] ELSE Undef

\* memory.findIndex(x => x._id === id): first match, 0 for -1
FindIndex(list, id) ==
  IF \E i \in 1..Len(list) : list[i]._id = Str(id)
  THEN CHOOSE i \in 1..Len(list) : list[i]._id = Str(id) /\ \A j \in 1..(i - 1) : list[j]._id # Str(id)
  ELSE 0

\* res.json(v): JSON.stringify writes NaN as null; an undefined property is
\* left out and reads back as undefined
JsonValue(v) == IF v.t = "nan" THEN Null ELSE v
JsonRecord(obj) == [k \in DOMAIN obj |-> JsonValue(obj[k])]
JsonList(list) == [i \in 1..Len(list) |-> JsonRecord(list[i])]

\* res.status(status).json({ error: message })
ErrorBody(status, message) == [status |-> status, error |-> message]
\* res.status(404).json({ error: 'Not found' })
NotFound == ErrorBody(404, "Not found")
\* Caught with the status of the write handlers in every catch block
CaughtAs400(status) == ErrorBody(400, "e.message")

\* the answer of a catch block: { error: e.message } with the handler's status
Caught(status) == ErrorBody(status, "e.message")

(***************************************************************************)
(* list.sort(comparator), as the runtime of the service (Node.js, V8)      *)
(* executes it on a list shorter than 64: the leading run is counted (and  *)
(* reversed when strictly descending), then every later element is placed  *)
(* by binary insertion.  The comparator is called as comparator(later,     *)
(* earlier); a NaN result counts as 0.  A comparator that throws aborts    *)
(* the sort: `thrown` carries that to the handler's catch.                 *)
(***************************************************************************)
\* the comparator of the query handler: [thrown, val]
Comparator(a, b, sortBy, order) ==
  IF sortBy = "location"
  THEN IF a.location.t # "string"
       THEN [thrown |-> TRUE, val |-> NaN]
       ELSE Let(Num(LocaleCompare(a.location.s, ToStringChars(b.location))), LAMBDA s :
              [thrown |-> FALSE, val |-> IF order = "asc" THEN s ELSE JsNeg(s)])
  ELSE Let(JsSub(Nullish(GetProp(a, sortBy), Num(0)), Nullish(GetProp(b, sortBy), Num(0))), LAMBDA s :
         [thrown |-> FALSE, val |-> IF order = "asc" THEN s ELSE JsNeg(s)])

CallCompare(a, b, sortBy, order) ==
  Let(Comparator(a, b, sortBy, order), LAMBDA c :
    [thrown |-> c.thrown, ord |-> IF c.val.t = "nan" THEN 0 ELSE c.val.n])

Reverse(list) == [i \in 1..Len(list) |-> list[Len(list) + 1 - i]]

RECURSIVE RunScan(_, _, _, _, _)
RunScan(arr, idx, desc, sortBy, order) ==
  IF idx > Len(arr) THEN [len |-> Len(arr), thrown |-> FALSE]
  ELSE Let(CallCompare(arr[idx], arr[idx - 1], sortBy, order), LAMBDA c :
         IF c.thrown THEN [len |-> idx - 1, thrown |-> TRUE]
         ELSE IF (desc /\ c.ord >= 0) \/ (~desc /\ c.ord < 0)
              THEN [len |-> idx - 1, thrown |-> FALSE]
         ELSE RunScan(arr, idx + 1, desc, sortBy, order))

\* Len(arr) >= 2
CountAndMakeRun(arr, sortBy, order) ==
  Let(CallCompare(arr[2], arr[1], sortBy, order), LAMBDA c :
    Let(c.ord < 0, LAMBDA desc :
      Let(RunScan(arr, 3, desc, sortBy, order), LAMBDA r :
        [arr |-> IF desc
                 THEN Reverse(SubSeq(arr, 1, r.len)) \o SubSeq(arr, r.len + 1, Len(arr))
                 ELSE arr,
         len |-> r.len,
         thrown |-> c.thrown \/ r.thrown])))

RECURSIVE BinarySearch(_, _, _, _, _, _)
BinarySearch(arr, pivot, left, right, sortBy, order) ==
  IF left >= right THEN [pos |-> left, thrown |-> FALSE]
  ELSE Let(left + ((right - left) \div 2), LAMBDA mid :
         Let(CallCompare(pivot, arr[mid], sortBy, order), LAMBDA c :
           IF c.thrown THEN [pos |-> left, thrown |-> TRUE]
           ELSE IF c.ord < 0 THEN BinarySearch(arr, pivot, left, mid, sortBy, order)
           ELSE BinarySearch(arr, pivot, mid + 1, right, sortBy, order)))

\* the element at start moved to position pos, the ones between shifted right
Place(arr, start, pos) ==
  SubSeq(arr, 1, pos - 1) \o <<arr[start]>> \o SubSeq(arr, pos, start - 1)
    \o SubSeq(arr, start + 1, Len(arr))

RECURSIVE BinaryInsertionSort(_, _, _, _)
BinaryInsertionSort(arr, start, sortBy, order) ==
  IF start > Len(arr) THEN [arr |-> arr, thrown |-> FALSE]
  ELSE Let(BinarySearch(arr, arr[start], 1, start, sortBy, order), LAMBDA p :
         IF p.thrown THEN [arr |-> arr, thrown |-> TRUE]
         ELSE Let(Place(arr, start, p.pos), LAMBDA placed :
                BinaryInsertionSort(placed, start + 1, sortBy, order)))

\* list.sort((a, b) => ...): [arr, thrown]
SortList(list, sortBy, order) ==
  IF Len(list) < 2 THEN [arr |-> list, thrown |-> FALSE]
  ELSE Let(CountAndMakeRun(list, sortBy, order), LAMBDA run :
         Let(BinaryInsertionSort(run.arr, run.len + 1, sortBy, order), LAMBDA done :
           [arr |-> done.arr, thrown |-> run.thrown \/ done.thrown]))

(***************************************************************************)
(* GET /api/properties: parameters, filter, sort, pagination.  A query is  *)
(* a record holding only the parameters the request gives; raw values are  *)
(* character sequences, sortBy and order are compared as given.            *)
(***************************************************************************)
DefaultPage == <<"1">>
DefaultPageSize == <<"2", "0">>
FallbackPage == 1
FallbackPageSize == 20
MinPage == 1
MinPageSize == 1
MaxPageSize == 100

\* a destructured query parameter: undefined when the request omits it
Param(query, k) == IF k \in DOMAIN query THEN Str(query[k]) ELSE Undef
SortBy(query) == IF "sortBy" \in DOMAIN query THEN query.sortBy ELSE "createdAt"
Order(query) == IF "order" \in DOMAIN query THEN query.order ELSE "desc"

PageNum(query) ==
  LET page == IF "page" \in DOMAIN query THEN query.page ELSE DefaultPage
  IN MathMax(JsOr(ParseInt(page), Num(FallbackPage)), Num(MinPage))
SizeNum(query) ==
  LET pageSize == IF "pageSize" \in DOMAIN query THEN query.pageSize ELSE DefaultPageSize
  IN MathMin(MathMax(JsOr(ParseInt(pageSize), Num(FallbackPageSize)), Num(MinPageSize)), Num(MaxPageSize))

\* one range of the filter object: absent, or {$gte?, $lte?}
RangeFilter(min, max) ==
  Let(min, LAMBDA lo : Let(max, LAMBDA hi :
    [present |-> Truthy(lo) \/ Truthy(hi),
     gte |-> IF Truthy(lo) THEN ToNumber(lo) ELSE Undef,
     lte |-> IF Truthy(hi) THEN ToNumber(hi) ELSE Undef]))
BuildFilter(query) ==
  [hasLocation |-> Truthy(Param(query, "q")),
   regex |-> IF Truthy(Param(query, "q")) THEN ToStringChars(Param(query, "q")) ELSE <<>>,
   price |-> RangeFilter(Param(query, "minPrice"), Param(query, "maxPrice")),
   rentalYield |-> RangeFilter(Param(query, "minYield"), Param(query, "maxYield"))]

NotNull(v) == v.t \notin {"undefined", "null"}
InRangeFilter(v, range) ==
  /\ (range.present /\ NotNull(range.gte)) => JsGe(v, range.gte)
  /\ (range.present /\ NotNull(range.lte)) => JsLe(v, range.lte)

\* the chain of list.filter(...) calls of the memory branch
FilterList(list, filter) ==
  LET Keep(x) == /\ filter.hasLocation => RegExpTest(filter.regex, x.location)
                 /\ InRangeFilter(x.price, filter.price)
                 /\ InRangeFilter(x.rentalYield, filter.rentalYield)
  IN SelectSeq(list, Keep)

\* Slice with the end index included: list.slice(start, start + sizeNum + 1)
SliceInclusive(list, start, count) ==
  SubSeq(list, start + 1, IF start + count + 1 < Len(list) THEN start + count + 1 ELSE Len(list))

\* list.slice(start, start + sizeNum)
Slice(list, start, count) ==
  SubSeq(list, start + 1, IF start + count < Len(list) THEN start + count ELSE Len(list))

\* the response of the memory branch, or of the catch
\* Respond with total counted after the slice (items.length) instead of before
RespondTotalOfPage(sorted, regexThrown, page, pageSize) ==
  Let(page, LAMBDA pageNum : Let(pageSize, LAMBDA sizeNum :
    IF regexThrown \/ sorted.thrown
    THEN Caught(500)
    ELSE [status |-> 200,
          items |-> JsonList(Slice(sorted.arr, (pageNum - 1) * sizeNum, sizeNum)),
          total |-> Len(Slice(sorted.arr, (pageNum - 1) * sizeNum, sizeNum)),
          page |-> pageNum,
          pageSize |-> sizeNum]))

Respond(sorted, regexThrown, page, pageSize) ==
  Let(page, LAMBDA pageNum : Let(pageSize, LAMBDA sizeNum :
    IF regexThrown \/ sorted.thrown
    THEN Caught(500)
    ELSE [status |-> 200,
          items |-> JsonList(Slice(sorted.arr, (pageNum - 1) * sizeNum, sizeNum)),
          total |-> Len(sorted.arr),
          page |-> pageNum,
          pageSize |-> sizeNum]))

QueryResponse(list, query) ==
  Let(BuildFilter(query), LAMBDA filter :
    Let(FilterList(list, filter), LAMBDA filtered :
      Let(SortList(filtered, SortBy(query), Order(query)), LAMBDA sorted :
        Respond(sorted, filter.hasLocation /\ RegExpThrows(filter.regex),
                PageNum(query).n, SizeNum(query).n))))

(***************************************************************************)
(* State.                                                                  *)
(***************************************************************************)
VARIABLES
  memory,   \* const memory = []: the volatile store, newest record first
  now,      \* the clock read by Date.now() and new Date()
  req,      \* the last request served
  res,      \* its response (status and JSON body)
  deleted,  \* history: the ids for which DELETE has answered 200
  MONGODB_URI,  \* process.env.MONGODB_URI || '': characters of the connection string
  useMongo,     \* let useMongo
  conn,         \* mongoose.connect(..): "none", "pending", "open", or "exited" after process.exit(1)
  tasks,    \* the handler invocations in flight on the event loop, by connection
  running,  \* the invocation that holds the thread, or "none"
  serial    \* history: the store after the finished writes, applied one after another

startup == <<MONGODB_URI, useMongo, conn>>
loop == <<tasks, running, serial>>
vars == <<memory, now, req, res, deleted, startup, loop>>

Connections == {"c1", "c2"}
\* no invocation in flight on a connection
IdleTask == [pc |-> "idle"]

\* the volatile store as the module leaves it, before any request
InitStore ==
  /\ memory = <<>>
  /\ now = 0
  /\ req = [op |-> "none"]
  /\ res = [status |-> 0]
  /\ deleted = {}
  /\ tasks = [c \in Connections |-> IdleTask]
  /\ running = "none"
  /\ serial = <<>>

\* started without MONGODB_URI: memory mode
Init ==
  /\ InitStore
  /\ MONGODB_URI = <<>>
  /\ useMongo = FALSE
  /\ conn = "none"

\* time passes between requests
Tick ==
  /\ now < MaxClock
  /\ now' = now + 1
  /\ UNCHANGED <<memory, req, res, deleted, startup, loop>>

(***************************************************************************)
(* POST /api/properties, memory branch.                                    *)
(***************************************************************************)
NewRecord(body, t1, t2) ==
  [_id |-> JsString(Num(t1)),
   price |-> ToNumber(body.price),
   location |-> JsString(body.location),
   rentalYield |-> ToNumber(body.rentalYield),
   createdAt |-> ToISOString(t2)]

\* Unshift with the record added at the end (push) instead of the front
UnshiftAtEnd(list, obj) == Append(list, obj)

\* memory.unshift(obj)
Unshift(list, obj) == <<obj>> \o list

\* Date.now() reads the clock at t1, new Date() reads it again at t2 >= t1.
Create(body, cap) ==
  /\ Len(memory) < cap
  /\ \E t2 \in {now, now + 1} :
       /\ t2 <= MaxClock
       /\ LET obj == NewRecord(body, now, t2)
          IN /\ memory' = Unshift(memory, obj)
             /\ res' = [status |-> 201, body |-> JsonRecord(obj)]
       /\ now' = t2
  /\ req' = [op |-> "POST", body |-> body]
  /\ UNCHANGED <<deleted, startup, loop>>

(***************************************************************************)
(* PUT /api/properties/:id, memory branch.                                 *)
(***************************************************************************)
\* Replaced with the record built anew from its id and the body: { _id, price, location, rentalYield }
ReplacedAnew(obj, body) ==
  [_id |-> obj._id, price |-> body.price, location |-> body.location,
   rentalYield |-> body.rentalYield, createdAt |-> Undef]

\* { ...memory[i], price, location, rentalYield }
Replaced(obj, body) ==
  [obj EXCEPT !.price = body.price, !.location = body.location, !.rentalYield = body.rentalYield]

\* PutResult with an upsert slip: an id that is not found is stored as a new record
PutResultUpsert(list, id, body) ==
  Let(FindIndex(list, id), LAMBDA i :
    IF i = 0
    THEN [memory |-> Unshift(list, Replaced([_id |-> Str(id), price |-> Undef, location |-> Undef,
                                             rentalYield |-> Undef, createdAt |-> Undef], body)),
          res |-> NotFound]
    ELSE Let([list EXCEPT ![i] = Replaced(list[i], body)], LAMBDA updated :
           [memory |-> updated, res |-> [status |-> 200, body |-> JsonRecord(updated[i])]]))

PutResult(list, id, body) ==
  Let(FindIndex(list, id), LAMBDA i :
    IF i = 0
    THEN [memory |-> list, res |-> NotFound]
    ELSE Let([list EXCEPT ![i] = Replaced(list[i], body)], LAMBDA updated :
           [memory |-> updated, res |-> [status |-> 200, body |-> JsonRecord(updated[i])]]))

Update(id, body) ==
  /\ \E r \in {PutResult(memory, id, body)} :
       /\ memory' = r.memory
       /\ res' = r.res
  /\ req' = [op |-> "PUT", id |-> id, body |-> body]
  /\ UNCHANGED <<now, deleted, startup, loop>>

(***************************************************************************)
(* DELETE /api/properties/:id, memory branch.                              *)
(***************************************************************************)
\* memory.splice(i, 1)
Splice(list, i) == SubSeq(list, 1, i - 1) \o SubSeq(list, i + 1, Len(list))

DeleteResult(list, id) ==
  Let(FindIndex(list, id), LAMBDA i :
    IF i = 0
    THEN [memory |-> list, res |-> NotFound]
    ELSE [memory |-> Splice(list, i), res |-> [status |-> 200]])

Delete(id) ==
  /\ \E r \in {DeleteResult(memory, id)} :
       /\ memory' = r.memory
       /\ res' = r.res
       /\ deleted' = IF r.res.status = 200 THEN deleted \cup {id} ELSE deleted
  /\ req' = [op |-> "DELETE", id |-> id]
  /\ UNCHANGED <<now, startup, loop>>

(***************************************************************************)
(* GET /api/properties, memory branch.                                     *)
(***************************************************************************)
\* Get sorting the store itself, memory.sort(..), instead of the copy [...memory]
GetSortingInPlace(query) ==
  /\ req' = [op |-> "GET", query |-> query]
  /\ res' = QueryResponse(memory, query)
  /\ memory' = SortList(memory, SortBy(query), Order(query)).arr
  /\ UNCHANGED <<now, deleted, startup, loop>>

Get(query) ==
  /\ req' = [op |-> "GET", query |-> query]
  /\ res' = QueryResponse(memory, query)
  /\ UNCHANGED <<memory, now, deleted, startup, loop>>

(***************************************************************************)
(* Requests explored.                                                      *)
(***************************************************************************)
BodyA == [price |-> Num(1), location |-> Str(<<"a">>), rentalYield |-> Num(2)]
BodyB == [price |-> Num(2), location |-> Str(<<"B">>), rentalYield |-> Num(1)]
\* a body with none of the three fields
BodyEmpty == [price |-> Undef, location |-> Undef, rentalYield |-> Undef]
\* a body whose price is JSON null
BodyNull == [price |-> Null, location |-> Str(<<"a">>), rentalYield |-> Num(1)]
Bodies == {BodyA, BodyB, BodyEmpty, BodyNull}

\* :id of PUT and DELETE: every id the clock can have produced, and one it cannot
IdParams == {NatToChars(t) : t \in 0..MaxClock} \cup {<<"x">>}

SortKeys == {"price", "location", "rentalYield", "createdAt"}
Orders == {"asc", "desc"}

\* the request without any query parameter
NoParams == [k \in {} |-> <<>>]
SortQueries == {[sortBy |-> k, order |-> o] : k \in SortKeys, o \in Orders}
Queries ==
  {NoParams} \cup SortQueries
    \cup {[q |-> <<"a">>], [q |-> <<"(">>], [minPrice |-> <<"1">>],
          [page |-> <<"2">>, pageSize |-> <<"1">>]}

Next ==
  \/ Tick
  \/ \E body \in Bodies : Create(body, MaxMem)
  \/ \E id \in IdParams, body \in Bodies : Update(id, body)
  \/ \E id \in IdParams : Delete(id)
  \/ \E query \in Queries : Get(query)

Spec == Init /\ [][Next]_vars

\* the writes alone
WriteBodies == {BodyA, BodyEmpty}

NextWrites ==
  \/ Tick
  \/ \E body \in WriteBodies : Create(body, MaxMem)
  \/ \E id \in IdParams, body \in WriteBodies : Update(id, body)
  \/ \E id \in IdParams : Delete(id)

SpecWrites == Init /\ [][NextWrites]_vars

(***************************************************************************)
(* A store filled past one default page: one body repeated until the list  *)
(* is longer than the default page size, the oldest records updated to     *)
(* hold no field, read back with the parameterless query.                  *)
(***************************************************************************)
FillMax == FallbackPageSize + 1

NextFill ==
  \/ Len(memory) <= MaxMem /\ Tick
  \/ Create(BodyA, FillMax)
  \/ Len(memory) <= MaxMem /\ \E id \in IdParams : Update(id, BodyEmpty)
  \/ Get(NoParams)

SpecFill == Init /\ [][NextFill]_vars

(***************************************************************************)
(* Properties of the volatile store under Spec.                            *)
(***************************************************************************)
Ids(list) == {list[i]._id.s : i \in 1..Len(list)}
IsGet == req.op = "GET" /\ res.status = 200

\* C1: every live record has a non-empty id and no two live records share an id.
C1_LiveIdsNonEmptyAndUnique ==
  /\ \A i \in 1..Len(memory) : memory[i]._id.t = "string" /\ Len(memory[i]._id.s) > 0
  /\ \A i, j \in 1..Len(memory) : i # j => memory[i]._id # memory[j]._id

\* C2: once DELETE has answered 200 for an id, no query returns an item with that id.
C2_DeletedIdNeverReturned ==
  IsGet => \A i \in 1..Len(res.items) : res.items[i]._id.s \notin deleted

LacksField(body) == \E k \in {"price", "location", "rentalYield"} : body[k] = Undef

\* C4: a create whose body lacks price, location or rentalYield answers 400 and
\* adds no record.
C4_CreateLackingFieldRejected ==
  [][(req'.op = "POST" /\ LacksField(req'.body))
       => (res'.status = 400 /\ memory' = memory)]_vars

\* C8: with sortBy=price and order=asc, consecutive items have
\* items[i].price <= items[i+1].price.
C8_PriceAscendingSorted ==
  (IsGet /\ SortBy(req.query) = "price" /\ Order(req.query) = "asc")
    => \A i \in 1..(Len(res.items) - 1) : JsLe(res.items[i].price, res.items[i + 1].price)

(***************************************************************************)
(* Queries with range bounds, and queries with page parameters.            *)
(***************************************************************************)
\* the parameter k left out, or given as one of the raw values
Opt(k, raws) == {NoParams} \cup {k :> v : v \in raws}
Combine(P, Q) == {p @@ q : p \in P, q \in Q}

\* raw bounds: two numbers, a text that is no number, the empty string
RawBounds == {<<"1">>, <<"2">>, <<"x">>, <<>>}
RangeQueries ==
  Combine(Opt("minPrice", RawBounds), Opt("maxPrice", RawBounds))
    \cup Combine(Opt("minYield", {<<"1">>, <<"x">>}), Opt("maxYield", {<<"1">>, <<"x">>}))
    \cup Combine(Opt("minPrice", {<<"1">>, <<"2">>}) \ {NoParams},
                 Opt("maxYield", {<<"1">>, <<"2">>}) \ {NoParams})

NextRange ==
  \/ \E body \in Bodies : Create(body, MaxMem)
  \/ \E id \in IdParams, body \in {BodyEmpty, BodyNull} : Update(id, body)
  \/ \E query \in RangeQueries : Get(query)

SpecRange == Init /\ [][NextRange]_vars

\* raw pages and page sizes: in range, zero, negative, above the maximum,
\* a text that is no number, a decimal
RawPages == {<<"2">>, <<"0">>, <<"-", "1">>, <<"x">>, <<"2", ".", "7">>}
RawPageSizes == {<<"1">>, <<"2">>, <<"0">>, <<"-", "5">>, <<"1", "0", "1">>, <<"x">>}
ParamQueries == Combine(Opt("page", RawPages), Opt("pageSize", RawPageSizes))

NextParams ==
  \/ Create(BodyA, MaxMem)
  \/ \E query \in ParamQueries : Get(query)

SpecParams == Init /\ [][NextParams]_vars

\* pages of one or two records, of the whole list and of a filtered one
Pages == {<<"1">>, <<"2">>, <<"3">>}
PageQueries ==
  Combine(Opt("page", Pages), Opt("pageSize", {<<"1">>, <<"2">>}))
    \cup Combine({[minPrice |-> <<"2">>]},
                 Combine(Opt("page", {<<"2">>}), Opt("pageSize", {<<"1">>})))

NextPage ==
  \/ Tick
  \/ \E body \in {BodyA, BodyB} : Create(body, MaxMem)
  \/ \E query \in PageQueries : Get(query)

SpecPage == Init /\ [][NextPage]_vars

(***************************************************************************)
(* Round trip, under SpecFill.                                             *)
(***************************************************************************)
IsNumber(v) == v.t = "number"
IsString(v) == v.t = "string"
WellTyped(body) == IsNumber(body.price) /\ IsString(body.location) /\ IsNumber(body.rentalYield)

\* C5: right after a create of a well-typed body has returned record r, the
\* query without parameters returns an item with r's id, price, location and
\* rentalYield, which are the values of the request, whatever the store held.
C5_CreatedRecordReadBack ==
  (req.op = "POST" /\ res.status = 201 /\ WellTyped(req.body))
    => \E q \in {QueryResponse(memory, NoParams)} :
         /\ q.status = 200
         /\ \E i \in 1..Len(q.items) :
              /\ q.items[i]._id = res.body._id
              /\ q.items[i].price = res.body.price
              /\ q.items[i].location = res.body.location
              /\ q.items[i].rentalYield = res.body.rentalYield
              /\ q.items[i].price = req.body.price
              /\ q.items[i].location = req.body.location
              /\ q.items[i].rentalYield = req.body.rentalYield
C5_Witness ==
  /\ req.op = "POST"
  /\ res.status = 201
  /\ WellTyped(req.body)
  /\ Len(memory) > FallbackPageSize
  /\ \E i \in 1..Len(memory) : ~IsNumber(memory[i].price)
  /\ \E i, j \in 1..Len(memory) : memory[i]._id # memory[j]._id

(***************************************************************************)
(* Range filtering, under SpecRange.                                       *)
(***************************************************************************)
BoundKeys == {"minPrice", "maxPrice", "minYield", "maxYield"}
Remove(query, k) == [j \in DOMAIN query \ {k} |-> query[j]]
\* a raw bound that is a number: digits only
NumericRaw(cs) == cs # <<>> /\ \A i \in 1..Len(cs) : IsDigit(cs[i])
NumericBounds(query) == \A k \in BoundKeys \cap DOMAIN query : NumericRaw(query[k])

\* v lies in [query[lo], query[hi]]; an absent bound imposes no constraint
LiesIn(v, query, lo, hi) ==
  /\ lo \in DOMAIN query => (IsNumber(v) /\ v.n >= DigitsValue(query[lo]))
  /\ hi \in DOMAIN query => (IsNumber(v) /\ v.n <= DigitsValue(query[hi]))
InRanges(x, query) ==
  /\ LiesIn(x.price, query, "minPrice", "maxPrice")
  /\ LiesIn(x.rentalYield, query, "minYield", "maxYield")
Matching(list, query) == SelectSeq(list, LAMBDA x : InRanges(x, query))

\* C6: with numeric bounds, each present or absent, the query returns exactly
\* the records whose price lies in [minPrice, maxPrice] and whose rentalYield
\* lies in [minYield, maxYield].
C6_RangeFilterExact ==
  (IsGet /\ NumericBounds(req.query))
    => /\ res.items = JsonList(Matching(memory, req.query))
       /\ res.total = Len(Matching(memory, req.query))

\* C9: a bound parameter that is not numeric is treated as absent: the query
\* answers as the same query without that parameter, and does not error.
C9_NonNumericBoundIgnored ==
  req.op = "GET"
    => \A k \in BoundKeys \cap DOMAIN req.query :
         ~NumericRaw(req.query[k])
           => (res.status = 200 /\ res = QueryResponse(memory, Remove(req.query, k)))

(***************************************************************************)
(* Pagination, under SpecPage.                                             *)
(***************************************************************************)
\* C7: items.length <= pageSize, total is the number of records that pass the
\* filters, and the same query with any other page has the same total.
C7_PageSizeAndTotal ==
  IsGet
    => /\ Len(res.items) <= res.pageSize
       /\ res.total = Len(FilterList(memory, BuildFilter(req.query)))
       /\ QueryResponse(memory, Remove(req.query, "page")).total = res.total
       /\ \A p \in Pages : QueryResponse(memory, ("page" :> p) @@ req.query).total = res.total
C7_Witness ==
  /\ IsGet
  /\ res.page = 2
  /\ res.pageSize = 1
  /\ res.total = 2
  /\ Len(res.items) = 1
  /\ Len(memory) = res.total

Clamp(n, lo, hi) == IF n < lo THEN lo ELSE IF n > hi THEN hi ELSE n
\* the page and page size the claim expects for a raw parameter
ExpectedPage(query) ==
  IF "page" \in DOMAIN query /\ IsNumber(ParseInt(query.page))
  THEN Clamp(ParseInt(query.page).n, MinPage, ParseInt(query.page).n)
  ELSE FallbackPage
ExpectedPageSize(query) ==
  IF "pageSize" \in DOMAIN query /\ IsNumber(ParseInt(query.pageSize))
  THEN Clamp(ParseInt(query.pageSize).n, MinPageSize, MaxPageSize)
  ELSE FallbackPageSize

\* C10: page >= 1 and 1 <= pageSize <= 100; a raw value that parses as an
\* integer is clamped into the range, one that does not becomes the default.
C10_PageParamsNormalized ==
  IsGet
    => /\ res.page >= MinPage
       /\ res.pageSize >= MinPageSize /\ res.pageSize <= MaxPageSize
       /\ res.page = ExpectedPage(req.query)
       /\ res.pageSize = ExpectedPageSize(req.query)

(***************************************************************************)
(* The durable branch of the query: Property.find(filter).sort(sort)       *)
(* .skip((pageNum - 1) * sizeNum).limit(sizeNum) with countDocuments, for  *)
(* an empty filter and documents whose fields have the schema's types.     *)
(* The database orders numbers by value, strings by code unit (simple      *)
(* collation) and dates by instant; the order of documents with equal keys *)
(* is not defined, so the branch has a set of possible answers.            *)
(***************************************************************************)
CodeUnit(c) ==
  IF IsDigit(c) THEN 48 + DigitVal(c)
  ELSE IF IndexOf(UpperCase, c) > 0 THEN 64 + IndexOf(UpperCase, c)
  ELSE IF IndexOf(LowerCase, c) > 0 THEN 96 + IndexOf(LowerCase, c)
  ELSE 32
BinaryCompare(x, y) ==
  LET n == IF Len(x) < Len(y) THEN Len(x) ELSE Len(y)
      differ == {i \in 1..n : CodeUnit(x[i]) # CodeUnit(y[i])}
  IN IF differ = {}
     THEN (IF Len(x) < Len(y) THEN -1 ELSE IF Len(x) > Len(y) THEN 1 ELSE 0)
     ELSE LET i == CHOOSE d \in differ : \A e \in differ : d <= e
          IN IF CodeUnit(x[i]) < CodeUnit(y[i]) THEN -1 ELSE 1
IntCompare(m, n) == IF m < n THEN -1 ELSE IF m > n THEN 1 ELSE 0

\* the instant a record was created at: createdAt as a date
CreatedInstant(x) == ParseInt(x.createdAt.s).n

\* the database's order of two documents on the sort key
DurableCompare(a, b, sortBy) ==
  IF sortBy = "location" THEN BinaryCompare(a.location.s, b.location.s)
  ELSE IF sortBy = "createdAt" THEN IntCompare(CreatedInstant(a), CreatedInstant(b))
  ELSE IntCompare(a[sortBy].n, b[sortBy].n)

\* const sort = { [String(sortBy)]: order === 'asc' ? 1 : -1 }
SortDirection(order) == IF order = "asc" THEN 1 ELSE -1

\* every order of the documents that .sort(sort) may return
DurableOrders(docs, sortBy, order) ==
  {arr \in {[i \in 1..Len(docs) |-> docs[f[i]]] : f \in Permutations(1..Len(docs))} :
     \A i \in 1..(Len(arr) - 1) :
       DurableCompare(arr[i], arr[i + 1], sortBy) * SortDirection(order) <= 0}

\* res.json({ items, total, page: pageNum, pageSize: sizeNum }) of the durable branch
DurableResponses(docs, query) ==
  {[items |-> Slice(arr, (PageNum(query).n - 1) * SizeNum(query).n, SizeNum(query).n),
    total |-> Len(docs),
    page |-> PageNum(query).n,
    pageSize |-> SizeNum(query).n] : arr \in DurableOrders(docs, SortBy(query), Order(query))}

(***************************************************************************)
(* Sorted queries over records created with well-typed bodies.             *)
(***************************************************************************)
SortedQueries == {NoParams} \cup SortQueries \cup {[sortBy |-> "createdAt", order |-> "asc", pageSize |-> <<"1">>]}

NextSorts ==
  \/ Tick
  \/ \E body \in {BodyA, BodyB} : Create(body, MaxMem)
  \/ \E query \in SortedQueries : Get(query)

SpecSorts == Init /\ [][NextSorts]_vars

\* the fields both stores keep of a record
Fields(x) ==
  [price |-> x.price, location |-> x.location, rentalYield |-> x.rentalYield,
   createdAt |-> x.createdAt]
FieldsOf(list) == [i \in 1..Len(list) |-> Fields(list[i])]

\* C11: for the same records and the same query parameters, the volatile
\* query returns the same items in the same order and the same total as the
\* durable query (as one of the answers the durable query may give).
C11_VolatileMatchesDurable ==
  IsGet
    => \E d \in DurableResponses(memory, req.query) :
         /\ FieldsOf(res.items) = FieldsOf(d.items)
         /\ res.total = d.total

(***************************************************************************)
(* The memory branches statement by statement on the event loop.  Requests *)
(* arrive on connections at any time; an invocation of a handler takes the *)
(* thread when no other holds it and keeps it from its first statement     *)
(* until it returns or awaits.  The memory branches contain no await.      *)
(***************************************************************************)
\* Awaits with an await between findIndex and the assignment of PUT
AwaitsAfterFindIndex(op) == IF op = "PUT" THEN {"assign"} ELSE {}

\* the statements of the memory branch of a handler that follow an await
Awaits(op) == {}

FirstStatement(op) ==
  CASE op = "POST" -> "build"
    [] op = "PUT" -> "find"
    [] op = "DELETE" -> "find"
    [] op = "GET" -> "copy"

\* an object without properties, as { ...undefined } is, and what reading past
\* the end of the array gives to the spread
EmptyObject ==
  [_id |-> Undef, price |-> Undef, location |-> Undef, rentalYield |-> Undef, createdAt |-> Undef]
ElementAt(list, i) == IF i <= Len(list) THEN list[i] ELSE EmptyObject
\* memory[i] = obj: an index past the end extends the array
AssignAt(list, i, obj) ==
  IF i <= Len(list) THEN [list EXCEPT ![i] = obj]
  ELSE list \o [k \in 1..(i - Len(list) - 1) |-> EmptyObject] \o <<obj>>
\* memory.splice(i, 1): nothing is removed past the end
SpliceAt(list, i) == IF i <= Len(list) THEN Splice(list, i) ELSE list

\* the invocation has returned: the status of its response, and whether the
\* response is the one that serving the request in one piece gives
Returned(t, response, whole) ==
  [pc |-> "idle", op |-> t.request.op, status |-> response.status, whole |-> response = whole.res]

\* one statement of invocation t on store mem at clock reading t2:
\* [task, memory, now, serial]
Statement(t, mem, t1, t2) ==
  LET r == t.request
      same == [memory |-> mem, now |-> t1, serial |-> serial]
  IN CASE r.op = "POST" /\ t.pc = "build" ->
            [task |-> [t EXCEPT !.pc = "unshift", !.obj = NewRecord(r.body, t1, t2)],
             memory |-> mem, now |-> t2, serial |-> serial]
       [] r.op = "POST" /\ t.pc = "unshift" ->
            Let([status |-> 201, body |-> JsonRecord(t.obj)], LAMBDA response :
              [task |-> Returned(t, response, [res |-> response]),
               memory |-> Unshift(mem, t.obj), now |-> t1, serial |-> Unshift(serial, t.obj)])
       [] r.op = "PUT" /\ t.pc = "find" ->
            Let(FindIndex(mem, r.id), LAMBDA i :
              IF i = 0
              THEN Let(PutResult(serial, r.id, r.body), LAMBDA whole :
                     [task |-> Returned(t, NotFound, whole),
                      memory |-> mem, now |-> t1, serial |-> whole.memory])
              ELSE [task |-> [t EXCEPT !.pc = "assign", !.i = i]] @@ same)
       [] r.op = "PUT" /\ t.pc = "assign" ->
            Let(AssignAt(mem, t.i, Replaced(ElementAt(mem, t.i), r.body)), LAMBDA updated :
              Let(PutResult(serial, r.id, r.body), LAMBDA whole :
                [task |-> Returned(t, [status |-> 200, body |-> JsonRecord(updated[t.i])], whole),
                 memory |-> updated, now |-> t1, serial |-> whole.memory]))
       [] r.op = "DELETE" /\ t.pc = "find" ->
            Let(FindIndex(mem, r.id), LAMBDA i :
              IF i = 0
              THEN Let(DeleteResult(serial, r.id), LAMBDA whole :
                     [task |-> Returned(t, NotFound, whole),
                      memory |-> mem, now |-> t1, serial |-> whole.memory])
              ELSE [task |-> [t EXCEPT !.pc = "splice", !.i = i]] @@ same)
       [] r.op = "DELETE" /\ t.pc = "splice" ->
            Let(DeleteResult(serial, r.id), LAMBDA whole :
              [task |-> Returned(t, [status |-> 200], whole),
               memory |-> SpliceAt(mem, t.i), now |-> t1, serial |-> whole.memory])
       [] r.op = "GET" /\ t.pc = "copy" ->
            [task |-> [t EXCEPT !.pc = "filter", !.list = mem]] @@ same
       [] r.op = "GET" /\ t.pc = "filter" ->
            Let(BuildFilter(r.query), LAMBDA filter :
              IF filter.hasLocation /\ RegExpThrows(filter.regex)
              THEN [task |-> Returned(t, Caught(500), [res |-> QueryResponse(t.seen, r.query)])]
                     @@ same
              ELSE [task |-> [t EXCEPT !.pc = "sort", !.list = FilterList(t.list, filter)]] @@ same)
       [] r.op = "GET" /\ t.pc = "sort" ->
            Let(SortList(t.list, SortBy(r.query), Order(r.query)), LAMBDA sorted :
              IF sorted.thrown
              THEN [task |-> Returned(t, Caught(500), [res |-> QueryResponse(t.seen, r.query)])]
                     @@ same
              ELSE [task |-> [t EXCEPT !.pc = "respond", !.list = sorted.arr]] @@ same)
       [] r.op = "GET" /\ t.pc = "respond" ->
            [task |-> Returned(t, Respond([arr |-> t.list, thrown |-> FALSE], FALSE,
                                          PageNum(r.query).n, SizeNum(r.query).n),
                               [res |-> QueryResponse(t.seen, r.query)])] @@ same

\* a request has been received on a connection and its handler is due
Arrive(c, request) ==
  /\ tasks[c].pc = "idle"
  /\ request.op = "POST" =>
       Len(memory) + Cardinality({d \in Connections :
                                    tasks[d].pc # "idle" /\ tasks[d].request.op = "POST"}) < MaxMem
  /\ tasks' = [tasks EXCEPT ![c] =
                 [pc |-> FirstStatement(request.op), request |-> request,
                  i |-> 0, obj |-> EmptyObject, list |-> <<>>, seen |-> <<>>]]
  /\ UNCHANGED <<memory, now, req, res, deleted, startup, running, serial>>

\* the thread executes the next statement of the invocation on connection c
Step(c) ==
  /\ tasks[c].pc # "idle"
  /\ running \in {"none", c}
  /\ \E t2 \in {now, now + 1} :
       /\ t2 <= MaxClock
       /\ t2 # now => tasks[c].pc = "build"
       /\ \E t \in {IF tasks[c].pc = FirstStatement(tasks[c].request.op)
                    THEN [tasks[c] EXCEPT !.seen = serial] ELSE tasks[c]} :
            \E out \in {Statement(t, memory, now, t2)} :
              /\ tasks' = [tasks EXCEPT ![c] = out.task]
              /\ memory' = out.memory
              /\ now' = out.now
              /\ serial' = out.serial
              /\ running' = IF out.task.pc = "idle" \/ out.task.pc \in Awaits(t.request.op)
                            THEN "none" ELSE c
  /\ UNCHANGED <<req, res, deleted, startup>>

\* :id of the first records, and one that no record has
LoopIds == {NatToChars(0), <<"x">>}
LoopRequests ==
  {[op |-> "POST", body |-> BodyA]}
    \cup {[op |-> "PUT", id |-> id, body |-> BodyB] : id \in LoopIds}
    \cup {[op |-> "DELETE", id |-> id] : id \in LoopIds}
    \cup {[op |-> "GET", query |-> q] : q \in {NoParams, [sortBy |-> "price", order |-> "asc"]}}

NextLoop ==
  \/ \E c \in Connections, request \in LoopRequests : Arrive(c, request)
  \/ \E c \in Connections : Step(c)

SpecLoop == Init /\ [][NextLoop]_vars

\* C12: handlers are serialized: every response is the one that serving the
\* request in one piece gives on the store as it stood when the invocation
\* took the thread, and between invocations the store is the result of
\* applying the finished writes one after another.
C12_HandlersSerialized ==
  /\ \A c \in Connections :
       (tasks[c].pc = "idle" /\ "whole" \in DOMAIN tasks[c]) => tasks[c].whole
  /\ running = "none" => memory = serial
\* a DELETE is due while a PUT of the same id is between findIndex and the assignment
C12_Witness ==
  /\ running = "c1"
  /\ tasks["c1"].pc = "assign"
  /\ tasks["c2"].pc = "find" /\ tasks["c2"].request.op = "DELETE"
  /\ tasks["c2"].request.id = tasks["c1"].request.id
  /\ Len(memory) = MaxMem

(***************************************************************************)
(* Startup and the two branches of the handlers.  The module body selects  *)
(* the store and starts the connection attempt before any request is       *)
(* served; the attempt settles later, while requests are already routed.   *)
(***************************************************************************)
\* if (MONGODB_URI) { .. useMongo = true; .. }
SelectStore(uri) == Truthy(Str(uri))

\* the process after the module body has run, with or without a connection string
InitStartup ==
  /\ InitStore
  /\ MONGODB_URI \in {<<>>, <<"m">>}
  /\ useMongo = SelectStore(MONGODB_URI)
  /\ conn = IF SelectStore(MONGODB_URI) THEN "pending" ELSE "none"

\* .then(() => console.log('MongoDB connecté'))
ConnectOk ==
  /\ conn = "pending"
  /\ conn' = "open"
  /\ UNCHANGED <<memory, now, req, res, deleted, MONGODB_URI, useMongo, loop>>

\* ConnectFail followed to the letter of its hint: the process carries on in memory mode
ConnectFailFallsBack ==
  /\ conn = "pending"
  /\ conn' = "none"
  /\ useMongo' = FALSE
  /\ UNCHANGED <<memory, now, req, res, deleted, MONGODB_URI, loop>>

\* .catch((err) => { console.error(..); process.exit(1); })
ConnectFail ==
  /\ conn = "pending"
  /\ conn' = "exited"
  /\ UNCHANGED <<memory, now, req, res, deleted, MONGODB_URI, useMongo, loop>>

\* the statuses a handler's durable branch and its catch can answer with
DurableStatuses(op) ==
  CASE op = "POST" -> {201, 400}
    [] op = "GET" -> {200, 500}
    [] op = "PUT" -> {200, 404, 400}
    [] op = "DELETE" -> {200, 404, 500}

\* if (useMongo) { .. }: the request is answered from the Property model,
\* with whatever the database gives
ServeDurable(op) ==
  /\ conn # "exited"
  /\ useMongo
  /\ req' = [op |-> op]
  /\ \E st \in DurableStatuses(op) : res' = [status |-> st, via |-> "Property"]
  /\ UNCHANGED <<memory, now, deleted, startup, loop>>

\* else { .. }: the memory branch
ServeVolatile ==
  /\ conn # "exited"
  /\ ~useMongo
  /\ \/ Create(BodyA, MaxMem)
     \/ \E id \in LoopIds : Update(id, BodyB)
     \/ \E id \in LoopIds : Delete(id)
     \/ \E query \in SortedQueries : Get(query)

NextStartup ==
  \/ ConnectOk
  \/ ConnectFail
  \/ \E op \in {"POST", "GET", "PUT", "DELETE"} : ServeDurable(op)
  \/ ServeVolatile
  \/ Tick

SpecStartup == InitStartup /\ [][NextStartup]_vars

Served == <<req, res>>

\* C13: the store is selected once, by whether a connection string is
\* configured: with one, no request is ever served from or writes to the
\* volatile list, and an attempt that fails ends the process; without one,
\* every request is served by the volatile list.
C13_StoreSelectedOnce ==
  [][/\ useMongo' = useMongo
     /\ useMongo' = (MONGODB_URI' # <<>>)
     /\ MONGODB_URI # <<>> =>
          /\ memory' = memory
          /\ memory' = <<>>
          /\ Served' # Served => "via" \in DOMAIN res'
     /\ MONGODB_URI = <<>> => (Served' # Served => "via" \notin DOMAIN res')
     /\ (conn = "pending" /\ conn' # "pending") => conn' \in {"open", "exited"}
     /\ conn = "exited" => (Served' = Served /\ memory' = memory)]_vars
\* a request was answered while the connection was pending, then the attempt failed
C13_Witness ==
  /\ MONGODB_URI # <<>>
  /\ conn = "exited"
  /\ req.op = "POST"
  /\ res.status = 201
  /\ memory = <<>>

(***************************************************************************)
(* Requests that fail.  A write request can reach its handler without a    *)
(* parsed body (req.body undefined): the destructuring at the head of the  *)
(* handler throws inside the try and the catch answers.                    *)
(***************************************************************************)
CreateWithoutBody ==
  /\ req' = [op |-> "POST"]
  /\ res' = Caught(400)
  /\ UNCHANGED <<memory, now, deleted, startup, loop>>

UpdateWithoutBody(id) ==
  /\ req' = [op |-> "PUT", id |-> id]
  /\ res' = Caught(400)
  /\ UNCHANGED <<memory, now, deleted, startup, loop>>

ErrorQueries ==
  {NoParams, [q |-> <<"a">>], [q |-> <<"(">>], [sortBy |-> "location", order |-> "asc"],
   [sortBy |-> "price", order |-> "asc"]}

NextErrors ==
  \/ Tick
  \/ \E body \in WriteBodies : Create(body, MaxMem)
  \/ CreateWithoutBody
  \/ \E id \in LoopIds, body \in WriteBodies : Update(id, body)
  \/ \E id \in LoopIds : UpdateWithoutBody(id)
  \/ \E id \in LoopIds : Delete(id)
  \/ \E query \in ErrorQueries : Get(query)

SpecErrors == Init /\ [][NextErrors]_vars

\* the query throws on this list: the pattern does not compile or the comparator throws
Fails(list, query) ==
  Let(BuildFilter(query), LAMBDA filter :
    \/ filter.hasLocation /\ RegExpThrows(filter.regex)
    \/ SortList(FilterList(list, filter), SortBy(query), Order(query)).thrown)
AllowedStatuses(op) ==
  CASE op = "POST" -> {201, 400}
    [] op = "GET" -> {200, 500}
    [] op = "PUT" -> {200, 404, 400}
    [] op = "DELETE" -> {200, 404, 500}

C15_CreatedAtOrdersByCreationTime ==
  (IsGet /\ SortBy(req.query) = "createdAt")
    => \A i \in 1..(Len(res.items) - 1) :
         IF Order(req.query) = "asc"
         THEN CreatedInstant(res.items[i]) <= CreatedInstant(res.items[i + 1])
         ELSE CreatedInstant(res.items[i]) >= CreatedInstant(res.items[i + 1])

(***************************************************************************)
(* Frame of a successful update, under SpecWrites.                         *)
(***************************************************************************)
\* C16: a successful update of id k replaces price, location and rentalYield
\* of one record with id k by the request's values and keeps its id, its
\* createdAt and its position; every other record and the number of records
\* are unchanged.
C16_UpdateReplacesThreeFields ==
  [][(req'.op = "PUT" /\ res'.status = 200)
       => /\ Len(memory') = Len(memory)
          /\ \E i \in 1..Len(memory) :
               /\ memory[i]._id = Str(req'.id)
               /\ \A j \in 1..Len(memory) : j # i => memory'[j] = memory[j]
               /\ memory'[i]._id = memory[i]._id
               /\ memory'[i].createdAt = memory[i].createdAt
               /\ memory'[i].price = req'.body.price
               /\ memory'[i].location = req'.body.location
               /\ memory'[i].rentalYield = req'.body.rentalYield]_vars
\* the older of two records has been updated with a body that holds no field
C16_Witness ==
  /\ req.op = "PUT"
  /\ res.status = 200
  /\ req.body = BodyEmpty
  /\ Len(memory) = MaxMem
  /\ memory[Len(memory)]._id = Str(req.id)
  /\ memory[Len(memory)].price = Undef
  /\ memory[1]._id # Str(req.id)
  /\ memory[1].price # Undef

(***************************************************************************)
(* Text filtering.                                                         *)
(***************************************************************************)
TextQueries ==
  Combine({[q |-> t] : t \in {<<"a">>, <<"A">>, <<"b">>, <<"d">>}},
          {NoParams, [sortBy |-> "price", order |-> "asc"]})

NextText ==
  \/ Tick
  \/ \E body \in {BodyA, BodyB} : Create(body, MaxMem)
  \/ \E id \in LoopIds : Update(id, BodyEmpty)
  \/ \E query \in TextQueries : Get(query)

SpecText == Init /\ [][NextText]_vars

\* text without pattern syntax: letters and digits
PlainText(cs) ==
  cs # <<>> /\ \A i \in 1..Len(cs) :
                 IsDigit(cs[i]) \/ IndexOf(LowerCase, cs[i]) > 0 \/ IndexOf(UpperCase, cs[i]) > 0
\* text contains cs ignoring letter case
Contains(text, cs) ==
  \E i \in 1..(Len(text) - Len(cs) + 1) :
    \A k \in 1..Len(cs) : FoldCase(text[i + k - 1]) = FoldCase(cs[k])
LocationContains(x, cs) == IsString(x.location) /\ Contains(x.location.s, cs)
WithText(list, cs) == SelectSeq(list, LAMBDA x : LocationContains(x, cs))
Elements(list) == {list[i] : i \in 1..Len(list)}

\* C17: for a plain-text q the query returns exactly the records whose
\* location contains q ignoring letter case, with total equal to their count,
\* whatever the sort.
C17_TextFilterExact ==
  (req.op = "GET" /\ "q" \in DOMAIN req.query /\ PlainText(req.query.q))
    => /\ res.status = 200
       /\ res.total = Len(WithText(memory, req.query.q))
       /\ Len(res.items) = res.total
       /\ Elements(res.items) = Elements(JsonList(WithText(memory, req.query.q)))

(***************************************************************************)
(* Queries on every reachable store, under Spec.                           *)
(***************************************************************************)
\* C18: for every sortBy and order, on every store that creates, updates and
\* deletes can reach, the query answers 200 with items, total, page and
\* pageSize, never 500.
C18_SortedQueryAnswers200 ==
  (req.op = "GET" /\ DOMAIN req.query \subseteq {"sortBy", "order"})
    => /\ res.status = 200
       /\ {"items", "total", "page", "pageSize"} \subseteq DOMAIN res

(***************************************************************************)
(* Frame of a query, under SpecSorts.                                      *)
(***************************************************************************)
\* C19: a query is read-only: for any parameters the records of the store
\* and their order are the same before and after it.
C19_QueryLeavesStore ==
  [][req'.op = "GET" => memory' = memory]_vars
\* a query sorted by ascending price has answered with the items in another
\* order than the store keeps them
C19_Witness ==
  /\ IsGet
  /\ SortBy(req.query) = "price"
  /\ Len(memory) = MaxMem
  /\ res.items # JsonList(memory)
  /\ Len(res.items) = Len(memory)

(***************************************************************************)
(* Pages of one result, under SpecPage.                                    *)
(***************************************************************************)
\* the answer to the same request for page p
PageOf(list, query, p) == QueryResponse(list, ("page" :> NatToChars(p)) @@ query)
\* the items of pages 1..n, one after the other
RECURSIVE PagesUpTo(_, _, _)
PagesUpTo(list, query, n) ==
  IF n = 0 THEN <<>> ELSE PagesUpTo(list, query, n - 1) \o PageOf(list, query, n).items
LastPage(total, pageSize) == (total + pageSize - 1) \div pageSize
\* the filtered records in sorted order
SortedFiltered(list, query) ==
  SortList(FilterList(list, BuildFilter(query)), SortBy(query), Order(query)).arr

\* C20: the items of pages 1 .. ceil(total/pageSize), one after the other,
\* are the filtered records in sorted order, each once, and every page beyond
\* the last has no items and the same total.
C20_PagesPartitionResult ==
  IsGet
    => /\ PagesUpTo(memory, req.query, LastPage(res.total, res.pageSize))
            = JsonList(SortedFiltered(memory, req.query))
       /\ \A p \in (LastPage(res.total, res.pageSize) + 1)..(LastPage(res.total, res.pageSize) + 2) :
            /\ PageOf(memory, req.query, p).items = <<>>
            /\ PageOf(memory, req.query, p).total = res.total
\* a page after the last of a two-page result has been asked for
C20_Witness ==
  /\ IsGet
  /\ res.page = 3
  /\ res.pageSize = 1
  /\ res.total = 2
  /\ res.items = <<>>

====
